---- MODULE Spec2Model ----
(***************************************************************************)
(* A model of wikidata-filter (src/src/main.rs): the batch producer, the   *)
(* worker pool, the aggregator and the Ctrl-C handler, together with the   *)
(* pure classifier functions the workers apply to every line.              *)
(*                                                                         *)
(* Strings are sequences of tokens (a token is a TLA+ string standing for  *)
(* a run of characters), so that starts_with / strip_prefix are sequence   *)
(* prefix operations.  A raw input line is a sequence of lexical terms.    *)
(***************************************************************************)
EXTENDS Integers, Sequences, FiniteSets, Bags, TLC

(***************************************************************************)
(* Bounds of the model                                                     *)
(***************************************************************************)
MaxThreads == 2
MaxSkip == 2
LongLen == 101
MaxInterrupts == 2
MaxCount == 2
MaxChunks == 3
MaxLine == 2

(***************************************************************************)
(* Program constants                                                       *)
(***************************************************************************)
BATCH_SIZE == 100

ENTITY_IRI_PREFIX == "http://www.wikidata.org/entity/Q"
DIRECT_PROPERTY_IRI_PREFIX == "http://www.wikidata.org/prop/direct/"
DIRECT_NORMALIZED_PREFIX == "http://www.wikidata.org/prop/direct-normalized/"
IGNORED_SUBJECT_PREFIX == "https://www.wikidata.org/wiki/Special:EntityData"
GEO_WKT_LITERAL == <<"http://www.opengis.net/ont/geosparql#wktLiteral">>

(***************************************************************************)
(* Strings                                                                 *)
(***************************************************************************)
StartsWith(s, p) == Len(s) >= Len(p) /\ SubSeq(s, 1, Len(p)) = p

Some(v) == [some |-> TRUE, v |-> v]
None == [some |-> FALSE, v |-> <<>>]

\* str::strip_prefix
StripPrefix(s, p) == IF StartsWith(s, p) THEN Some(SubSeq(s, Len(p) + 1, Len(s))) ELSE None

(***************************************************************************)
(* Reference tables (bundled data files, consulted read-only)              *)
(***************************************************************************)
PROPERTIES == { <<"http://schema.org/", "version">>,
                <<DIRECT_PROPERTY_IRI_PREFIX, "P", "1">> }

IDENTIFIER_PROPERTIES_DATA == { "214" }

IDENTIFIER_PROPERTIES ==
    UNION { { <<DIRECT_PROPERTY_IRI_PREFIX, "P", id>>,
              <<DIRECT_NORMALIZED_PREFIX, "P", id>> } : id \in IDENTIFIER_PROPERTIES_DATA }

LANGUAGES == { <<"en">> }

LABELS == { <<"http://www.w3.org/2000/01/rdf-schema#", "label">> }

(***************************************************************************)
(* Statement                                                               *)
(***************************************************************************)
ExtraNone == [k |-> "None", v |-> <<>>]
ExtraType(t) == [k |-> "Type", v |-> t]
ExtraLang(l) == [k |-> "Lang", v |-> l]

SubjectIRI(s) == [k |-> "IRI", v |-> s]
SubjectBlank(s) == [k |-> "Blank", v |-> s]

ObjectIRI(s) == [k |-> "IRI", v |-> s, extra |-> ExtraNone]
ObjectBlank(s) == [k |-> "Blank", v |-> s, extra |-> ExtraNone]
ObjectLiteral(s, extra) == [k |-> "Literal", v |-> s, extra |-> extra]

Statement(s, p, o) == [subject |-> s, predicate |-> p, object |-> o]

\* the value standing for a panic of the thread that evaluates a function
Panic == [subject |-> SubjectBlank(<<"!panic">>), predicate |-> <<>>,
          object |-> ObjectBlank(<<"!panic">>)]

(***************************************************************************)
(* Raw lines: sequences of lexical terms                                   *)
(***************************************************************************)
IriT(s) == [k |-> "iri", v |-> s, xk |-> "none", xv |-> <<>>]
BlankT(s) == [k |-> "blank", v |-> s, xk |-> "none", xv |-> <<>>]
LitT(s) == [k |-> "lit", v |-> s, xk |-> "none", xv |-> <<>>]
LitLangT(s, l) == [k |-> "lit", v |-> s, xk |-> "lang", xv |-> l]
LitTypeT(s, t) == [k |-> "lit", v |-> s, xk |-> "type", xv |-> t]
DotT == [k |-> "dot", v |-> <<>>, xk |-> "none", xv |-> <<>>]

\* does the input match RE: subject, predicate IRI, object, anything after
Matches(input) ==
    /\ Len(input) >= 3
    /\ \/ input[1].k = "iri"
       \/ input[1].k = "blank" /\ input[1].v # <<>>
    /\ input[2].k = "iri"
    /\ \/ input[3].k = "iri"
       \/ input[3].k = "blank" /\ input[3].v # <<>>
       \/ input[3].k = "lit"

\* a parser that never looks at capture 7, the language tag
parse_untagged(line, input) ==
    IF ~Matches(input) THEN Panic
    ELSE LET subject == IF input[1].k = "iri" THEN SubjectIRI(input[1].v)
                        ELSE SubjectBlank(input[1].v)
             extra == IF input[3].xk = "type" THEN ExtraType(input[3].xv) ELSE ExtraNone
             object == IF input[3].k = "iri" THEN ObjectIRI(input[3].v)
                       ELSE IF input[3].k = "blank" THEN ObjectBlank(input[3].v)
                       ELSE ObjectLiteral(input[3].v, extra)
         IN Statement(subject, input[2].v, object)

parse(line, input) ==
    IF ~Matches(input) THEN Panic
    ELSE LET subject == IF input[1].k = "iri" THEN SubjectIRI(input[1].v)
                        ELSE SubjectBlank(input[1].v)
             predicate == input[2].v
             extra == IF input[3].xk = "lang" THEN ExtraLang(input[3].xv)
                      ELSE IF input[3].xk = "type" THEN ExtraType(input[3].xv)
                      ELSE ExtraNone
             object == IF input[3].k = "iri" THEN ObjectIRI(input[3].v)
                       ELSE IF input[3].k = "blank" THEN ObjectBlank(input[3].v)
                       ELSE ObjectLiteral(input[3].v, extra)
         IN Statement(subject, predicate, object)

(***************************************************************************)
(* Classifier / extractor                                                  *)
(***************************************************************************)
ignored_subject(iri) == StartsWith(iri, <<IGNORED_SUBJECT_PREFIX>>)

\* a classifier without the test for a blank-node subject
accepts_blank_subject(statement) ==
    IF statement.predicate \in PROPERTIES \/ statement.predicate \in IDENTIFIER_PROPERTIES
    THEN FALSE
    ELSE IF statement.subject.k = "IRI" /\ ignored_subject(statement.subject.v) THEN FALSE
    ELSE IF statement.object.k = "Blank" THEN FALSE
    ELSE IF /\ statement.object.k = "Literal"
            /\ statement.object.extra.k = "Lang"
            /\ statement.object.extra.v \notin LANGUAGES THEN FALSE
    ELSE IF /\ statement.object.k = "Literal"
            /\ statement.object.extra = ExtraType(GEO_WKT_LITERAL)
            /\ StartsWith(statement.object.v, <<"<">>) THEN FALSE
    ELSE TRUE

is_acceptable(statement) ==
    IF statement.predicate \in PROPERTIES \/ statement.predicate \in IDENTIFIER_PROPERTIES
    THEN FALSE
    ELSE IF statement.subject.k = "Blank" THEN FALSE
    ELSE IF statement.subject.k = "IRI" /\ ignored_subject(statement.subject.v) THEN FALSE
    ELSE IF statement.object.k = "Blank" THEN FALSE
    ELSE IF /\ statement.object.k = "Literal"
            /\ statement.object.extra.k = "Lang"
            /\ statement.object.extra.v \notin LANGUAGES THEN FALSE
    ELSE IF /\ statement.object.k = "Literal"
            /\ statement.object.extra = ExtraType(GEO_WKT_LITERAL)
            /\ StartsWith(statement.object.v, <<"<">>) THEN FALSE
    ELSE TRUE

entity(subject) ==
    IF subject.k = "IRI" THEN StripPrefix(subject.v, <<ENTITY_IRI_PREFIX>>) ELSE None

direct_property(predicate) == StripPrefix(predicate, <<DIRECT_PROPERTY_IRI_PREFIX>>)

(***************************************************************************)
(* unescape: a literal value is a sequence of one-character tokens.        *)
(* The result is Some(string), or None when the function panics.           *)
(***************************************************************************)
HexDigits == <<"0", "1", "2", "3", "4", "5", "6", "7", "8", "9",
               "a", "b", "c", "d", "e", "f", "A", "B", "C", "D", "E", "F">>

IsHex(c) == \E i \in 1..Len(HexDigits) : HexDigits[i] = c

HexVal(c) == LET i == CHOOSE j \in 1..Len(HexDigits) : HexDigits[j] = c
             IN IF i <= 16 THEN i - 1 ELSE i - 7

\* the largest code point, char::MAX
CHAR_MAX == 1114111

RECURSIVE HexNumber(_, _)
\* the u32 value of at most 8 hex digits (it cannot overflow); every value
\* above CHAR_MAX is represented by CHAR_MAX + 1, which from_u32 rejects
\* like the value itself
HexNumber(digits, acc) ==
    IF digits = <<>> THEN acc
    ELSE LET next == acc * 16 + HexVal(Head(digits))
         IN HexNumber(Tail(digits), IF next > CHAR_MAX THEN CHAR_MAX + 1 ELSE next)

\* u32::from_str_radix(seq, 16): an optional leading '+', then hex digits
from_str_radix(seq) ==
    LET digits == IF seq # <<>> /\ Head(seq) = "+" THEN Tail(seq) ELSE seq
    IN IF digits = <<>> \/ \E i \in 1..Len(digits) : ~IsHex(digits[i])
       THEN None
       ELSE Some(HexNumber(digits, 0))

\* std::char::from_u32: a scalar value, surrogates excluded
from_u32(u) ==
    IF u > CHAR_MAX \/ (u >= 55296 /\ u <= 57343) THEN None
    ELSE Some(IF u = 65 THEN "A" ELSE IF u = 97 THEN "a" ELSE "U+" \o ToString(u))

\* chars.take(count) from position i of s, then the two conversions
parse_unicode(s, i, count) ==
    LET last == IF i + count - 1 <= Len(s) THEN i + count - 1 ELSE Len(s)
        unicode_seq == SubSeq(s, i, last)
        u == from_str_radix(unicode_seq)
    IN [taken |-> Len(unicode_seq),
        result |-> IF u.some THEN from_u32(u.v) ELSE None]

SimpleEscape(c2) ==
    IF c2 = "t" THEN Some("\t")
    ELSE IF c2 = "b" THEN Some("U+8")
    ELSE IF c2 = "n" THEN Some("\n")
    ELSE IF c2 = "r" THEN Some("\r")
    ELSE IF c2 = "f" THEN Some("\f")
    ELSE IF c2 = "\\" THEN Some("\\")
    ELSE None

RECURSIVE UnescapeFrom(_, _, _)
UnescapeFrom(s, i, res) ==
    IF i > Len(s) THEN Some(res)
    ELSE IF s[i] = "\\"
    THEN IF i + 1 > Len(s) THEN None
         ELSE LET c2 == s[i + 1]
              IN IF c2 = "u" \/ c2 = "U"
                 THEN LET pu == parse_unicode(s, i + 2, IF c2 = "u" THEN 4 ELSE 8)
                      IN IF pu.result.some
                         THEN UnescapeFrom(s, i + 2 + pu.taken, Append(res, pu.result.v))
                         ELSE None
                 ELSE IF SimpleEscape(c2).some
                      THEN UnescapeFrom(s, i + 2, Append(res, SimpleEscape(c2).v))
                      ELSE None
    ELSE UnescapeFrom(s, i + 1, Append(res, s[i]))

unescape(s) == UnescapeFrom(s, 1, <<>>)

\* label: Ok(None), Ok(Some(label)), or a panic inside unescape
LabelNone == [panic |-> FALSE, some |-> FALSE, v |-> <<>>]
label(statement) ==
    IF statement.predicate \notin LABELS THEN LabelNone
    ELSE IF statement.object.k = "Literal" /\ statement.object.extra.k = "Lang"
    THEN IF statement.object.extra.v \notin LANGUAGES THEN LabelNone
         ELSE LET u == unescape(statement.object.v)
              IN IF u.some THEN [panic |-> FALSE, some |-> TRUE, v |-> u.v]
                 ELSE [panic |-> TRUE, some |-> FALSE, v |-> <<>>]
    ELSE LabelNone

(***************************************************************************)
(* Counter maps: HashMap<String, u64> as a function on its key set;        *)
(* Option<HashMap> as a record [some, map].                                *)
(***************************************************************************)
EmptyMap == [k \in {} |-> 0]
SomeMap(m) == [some |-> TRUE, map |-> m]
NoMap == [some |-> FALSE, map |-> EmptyMap]

Get(m, k) == IF k \in DOMAIN m THEN m[k] ELSE 0

\* an entry that is stored instead of added to
StoreAt(m, k, n) == [x \in DOMAIN m \cup {k} |-> IF x = k THEN n ELSE m[x]]

\* *map.entry(k).or_insert(0) += n
AddTo(m, k, n) == [x \in DOMAIN m \cup {k} |-> IF x = k THEN Get(m, k) + n ELSE m[x]]

\* a counter that forgets to test the predicate
count_every_statement(statement_counter, id, statement) ==
    IF ~statement_counter.some THEN statement_counter
    ELSE SomeMap(AddTo(statement_counter.map, id, 1))

maybe_count_statement(statement_counter, id, statement) ==
    IF ~statement_counter.some THEN statement_counter
    ELSE IF ~direct_property(statement.predicate).some THEN statement_counter
    ELSE SomeMap(AddTo(statement_counter.map, id, 1))

\* a writer that puts each accepted line in front of the shard
write_line_first(lines_writer, line, statement) ==
    IF ~is_acceptable(statement) THEN lines_writer
    ELSE <<line>> \o lines_writer

maybe_write_line(lines_writer, line, statement) ==
    IF ~is_acceptable(statement) THEN lines_writer
    ELSE Append(lines_writer, line)

(***************************************************************************)
(* Input lines.  A String read from a dump is represented by its index in  *)
(* LINE, the table of the distinct line texts that occur in the inputs.    *)
(***************************************************************************)
Q(id) == <<ENTITY_IRI_PREFIX, id>>
DirectP(id) == <<DIRECT_PROPERTY_IRI_PREFIX, "P", id>>
LabelPredicate == <<"http://www.w3.org/2000/01/rdf-schema#", "label">>
En == <<"en">>

LINE == <<
    \* 1: accepted, counted for entity 1
    <<IriT(Q("1")), IriT(DirectP("31")), IriT(Q("2")), DotT>>,
    \* 2: accepted, label of entity 1 with a valid escape
    <<IriT(Q("1")), IriT(LabelPredicate), LitLangT(<<"a", "\\", "n", "b">>, En), DotT>>,
    \* 3: identifier property: rejected, direct predicate, entity 2
    <<IriT(Q("2")), IriT(DirectP("214")), LitT(<<"7">>), DotT>>,
    \* 4: blank subject: rejected, no entity
    <<BlankT(<<"foo">>), IriT(<<"bar">>), IriT(<<"baz">>)>>,
    \* 5: blank object: rejected, direct predicate, entity 2
    <<IriT(Q("2")), IriT(DirectP("31")), BlankT(<<"b">>), DotT>>,
    \* 6: subject is not an entity: accepted, nothing counted
    <<IriT(<<"http://www.wikidata.org/entity/", "P31">>), IriT(DirectP("31")), IriT(Q("1")), DotT>>,
    \* 7: does not match the grammar (no predicate IRI)
    <<IriT(Q("1")), LitT(<<"x">>), DotT>>,
    \* 8: accepted label line whose literal has an invalid escape
    <<IriT(Q("1")), IriT(LabelPredicate), LitLangT(<<"a", "\\", "x">>, En), DotT>>,
    \* 9: label in a language that is not accepted: rejected
    <<IriT(Q("1")), IriT(LabelPredicate), LitLangT(<<"x">>, <<"zz">>), DotT>>
  >>

GoodKinds == <<1, 2, 3, 4, 5, 6, 9>>

\* a well-formed dump of n lines
Good(n) == [i \in 1..n |-> GoodKinds[((i - 1) % Len(GoodKinds)) + 1]]

\* the dumps given on the command line
PathSets == { <<Good(LongLen)>>,
              <<Good(2), Good(3)>>,
              <<<<1, 7, 1>>>>,
              <<<<2, 8, 1>>>> }

(***************************************************************************)
(* handle: one line against a worker's writers and counter.                *)
(* ws = [lines_writer, labels_writer, statement_counter, panicked, at];     *)
(* at is the line number in the message of a panic of parse.               *)
(***************************************************************************)
maybe_write_label(labels_writer, id, statement) ==
    IF ~labels_writer.some THEN [panic |-> FALSE, w |-> labels_writer]
    ELSE LET l == label(statement)
         IN IF l.panic THEN [panic |-> TRUE, w |-> labels_writer]
            ELSE IF ~l.some THEN [panic |-> FALSE, w |-> labels_writer]
            ELSE [panic |-> FALSE, w |-> Some(Append(labels_writer.v, <<id, l.v>>))]

handle(ws, number, line) ==
    LET statement == parse(number, LINE[line])
    IN IF statement = Panic
       THEN [ws EXCEPT !.panicked = TRUE, !.at = number]
       ELSE LET written == maybe_write_line(ws.lines_writer, line, statement)
                id == entity(statement.subject)
            IN IF ~id.some
               THEN [ws EXCEPT !.lines_writer = written]
               ELSE LET counted == maybe_count_statement(ws.statement_counter, id.v, statement)
                        labelled == maybe_write_label(ws.labels_writer, id.v, statement)
                    IN [lines_writer |-> written,
                        labels_writer |-> labelled.w,
                        statement_counter |-> counted,
                        panicked |-> labelled.panic,
                        at |-> ws.at]

\* for line in lines { handle(...) }: stops at the first panic
RECURSIVE HandleAll(_, _, _)
HandleAll(ws, number, ls) ==
    IF ls = <<>> \/ ws.panicked THEN ws
    ELSE HandleAll(handle(ws, number, Head(ls)), number, Tail(ls))

(***************************************************************************)
(* The pipeline                                                            *)
(***************************************************************************)
VARIABLES
    opts,               \* paths, skip, threads, labels, statement_counts
    running,            \* the AtomicBool shared with the Ctrl-C handler
    exited,             \* "no", or who called exit: "main" / "handler"
    status,             \* the process exit status once exited
    pcMain,             \* position of the main thread
    fileIdx,            \* index in opts.paths of the file being produced
    total,              \* produce: lines read from the current file
    lines,              \* produce: the batch being filled
    exit_code,          \* main
    done_sent,          \* main: Work::DONE messages sent so far
    results,            \* the unbounded result channel
    result_count,       \* main: results received
    statement_counter,  \* main: the merged counts
    countsStream,       \* statement_counts.bz2: "none" / "buffered"
    pcW,                \* position of each worker
    work,               \* the Work::LINES a worker holds
    worker,             \* each worker's writers, counter and panic record
    linesStream,        \* <id>.nt.bz2: "open" / "buffered" / "closed"
    labelsStream,       \* labels_<id>.bz2: "absent" / "open" / "buffered" / "closed"
    interrupts,         \* history: Ctrl-C handler invocations
    linesIdx,           \* history: <<file, line number>> of each line in lines
    skippedIdx,         \* history: <<file, line number>> of the lines skipped
    eofFiles,           \* history: files produce read to end-of-file
    log,                \* history: the batches handed to workers
    signals,            \* history: Work::DONE messages each worker received
    emitted,            \* history: WorkResults each worker sent
    mergedFrom,         \* history: results of each worker that main merged
    call                \* a single call of a pure function: its input and result

mainVars == <<pcMain, fileIdx, total, lines, exit_code, done_sent, result_count,
              statement_counter, countsStream>>
workerVars == <<pcW, work, worker, linesStream, labelsStream>>
historyVars == <<linesIdx, skippedIdx, eofFiles, log>>
protocolVars == <<signals, emitted, mergedFrom>>
pipelineVars == <<opts, running, exited, status, mainVars, results, workerVars,
                  interrupts, historyVars, protocolVars>>
vars == <<call, opts, running, exited, status, mainVars, results, workerVars,
          interrupts, historyVars, protocolVars>>

Workers == 1..opts.threads

NoWork == [number |-> 0, lines |-> <<>>]

NoCall == [fn |-> "none"]

\* the state of the process once main has spawned its threads
Started ==
    /\ running = TRUE
    /\ exited = "no"
    /\ status = 0
    /\ pcMain = "read"
    /\ fileIdx = 1
    /\ total = 0
    /\ lines = <<>>
    /\ exit_code = 0
    /\ done_sent = 0
    /\ results = <<>>
    /\ result_count = 0
    /\ statement_counter = EmptyMap
    /\ countsStream = "none"
    /\ pcW = [w \in Workers |-> "recv"]
    /\ work = [w \in Workers |-> NoWork]
    /\ worker = [w \in Workers |->
                    [lines_writer |-> <<>>,
                     labels_writer |-> IF opts.labels THEN Some(<<>>) ELSE None,
                     statement_counter |-> IF opts.statement_counts THEN SomeMap(EmptyMap) ELSE NoMap,
                     panicked |-> FALSE,
                     at |-> 0]]
    /\ linesStream = [w \in Workers |-> "open"]
    /\ labelsStream = [w \in Workers |-> IF opts.labels THEN "open" ELSE "absent"]
    /\ interrupts = 0
    /\ linesIdx = <<>>
    /\ skippedIdx = <<>>
    /\ eofFiles = {}
    /\ log = <<>>
    /\ signals = [w \in Workers |-> 0]
    /\ emitted = [w \in Workers |-> 0]
    /\ mergedFrom = [w \in Workers |-> 0]

Init ==
    /\ opts \in [paths : PathSets, skip : 0..MaxSkip, threads : 0..MaxThreads,
                 labels : BOOLEAN, statement_counts : BOOLEAN]
    /\ call = NoCall
    /\ Started

Alive == exited = "no"

(***************************************************************************)
(* main: the loop over opts.paths around produce, and what follows it      *)
(***************************************************************************)
\* where main goes when the loop over the paths ends: for _ in &threads
ShutdownPc == IF opts.threads = 0 THEN "aggregate" ELSE "send_done"

\* produce returns (finished, total) to the loop over the paths
Return(finished) ==
    LET more == finished /\ fileIdx < Len(opts.paths)
    IN /\ exit_code' = IF finished THEN exit_code ELSE 1
       /\ fileIdx' = IF more THEN fileIdx + 1 ELSE fileIdx
       /\ total' = IF more THEN 0 ELSE total
       /\ pcMain' = IF more THEN "read" ELSE ShutdownPc
       /\ lines' = <<>>
       /\ linesIdx' = <<>>
       /\ eofFiles' = IF finished THEN eofFiles \cup {fileIdx} ELSE eofFiles

skipped(n, skip) == n < skip

\* a producer that keeps the lines it has sent in its batch
KeptBatch == lines

\* lines = Vec::new() after a send
NewBatch == <<>>

\* one iteration of the loop of produce, up to its send
ProduceStep ==
    /\ Alive
    /\ pcMain = "read"
    /\ IF ~running
       THEN /\ Return(FALSE)
            /\ UNCHANGED skippedIdx
       ELSE IF total = Len(opts.paths[fileIdx])
       THEN /\ UNCHANGED skippedIdx
            /\ IF lines # <<>>
               THEN /\ pcMain' = "send_last"
                    /\ UNCHANGED <<fileIdx, total, lines, exit_code, linesIdx, eofFiles>>
               ELSE Return(TRUE)
       ELSE LET line == opts.paths[fileIdx][total + 1]
                n == total + 1
            IN /\ total' = n
               /\ IF skipped(n, opts.skip)
                  THEN /\ skippedIdx' = Append(skippedIdx, <<fileIdx, n>>)
                       /\ UNCHANGED <<lines, linesIdx, pcMain>>
                  ELSE /\ lines' = Append(lines, line)
                       /\ linesIdx' = Append(linesIdx, <<fileIdx, n>>)
                       /\ pcMain' = IF n % BATCH_SIZE = 0 THEN "send_lines" ELSE "read"
                       /\ UNCHANGED skippedIdx
               /\ UNCHANGED <<fileIdx, exit_code, eofFiles>>
    /\ UNCHANGED protocolVars
    /\ UNCHANGED <<call, opts, running, exited, status, done_sent, result_count,
                   statement_counter, countsStream, results, workerVars,
                   interrupts, log>>

\* s.send(Work::LINES(total, lines)) meets work_receiver.recv() of worker w
SendLines(w) ==
    /\ Alive
    /\ pcMain \in {"send_lines", "send_last"}
    /\ pcW[w] = "recv"
    /\ work' = [work EXCEPT ![w] = [number |-> total, lines |-> lines]]
    /\ pcW' = [pcW EXCEPT ![w] = "lines"]
    /\ log' = Append(log, [file |-> fileIdx, number |-> total, idxs |-> linesIdx,
                           lines |-> lines, w |-> w, signalled |-> signals[w] > 0])
    /\ IF pcMain = "send_lines"
       THEN /\ lines' = NewBatch
            /\ linesIdx' = <<>>
            /\ pcMain' = "read"
            /\ UNCHANGED <<fileIdx, total, exit_code, eofFiles>>
       ELSE Return(TRUE)
    /\ UNCHANGED protocolVars
    /\ UNCHANGED <<call, opts, running, exited, status, done_sent, result_count,
                   statement_counter, countsStream, results, worker, linesStream,
                   labelsStream, interrupts, skippedIdx>>

\* work_sender.send(Work::DONE) meets work_receiver.recv() of worker w
SendDone(w) ==
    /\ Alive
    /\ pcMain = "send_done"
    /\ pcW[w] = "recv"
    /\ pcW' = [pcW EXCEPT ![w] = "done"]
    /\ done_sent' = done_sent + 1
    /\ pcMain' = IF done_sent + 1 = opts.threads THEN "aggregate" ELSE "send_done"
    /\ signals' = [signals EXCEPT ![w] = @ + 1]
    /\ UNCHANGED <<emitted, mergedFrom>>
    /\ UNCHANGED <<call, opts, running, exited, status, fileIdx, total, lines, exit_code,
                   result_count, statement_counter, countsStream, results, work,
                   worker, linesStream, labelsStream, interrupts, historyVars>>

RECURSIVE MergeOverwrite(_, _, _)
\* a merge that stores each worker's count instead of adding it
MergeOverwrite(merged, counts, keys) ==
    IF keys = {} THEN merged
    ELSE LET k == CHOOSE x \in keys : TRUE
         IN MergeOverwrite([x \in DOMAIN merged \cup {k} |->
                               IF x = k THEN counts[k] ELSE merged[x]],
                           counts, keys \ {k})

RECURSIVE MergeInto(_, _, _)
\* for (id, count) in statement_counts.iter() { *entry(id).or_insert(0) += count }
MergeInto(merged, counts, keys) ==
    IF keys = {} THEN merged
    ELSE LET k == CHOOSE x \in keys : TRUE
         IN MergeInto(AddTo(merged, k, counts[k]), counts, keys \ {k})

\* an aggregator that stops at the first result
AnyResult(n) == n >= 1

\* if result_count == thread_count { break }
AllResults(n) == n = opts.threads

\* one iteration of the loop over result_receiver.iter()
Aggregate ==
    /\ Alive
    /\ pcMain = "aggregate"
    /\ results # <<>>
    /\ LET result == Head(results)
       IN statement_counter' =
              IF result.statement_counts.some
              THEN MergeInto(statement_counter, result.statement_counts.map,
                             DOMAIN result.statement_counts.map)
              ELSE statement_counter
    /\ results' = Tail(results)
    /\ result_count' = result_count + 1
    /\ pcMain' = IF AllResults(result_count + 1) THEN "finish" ELSE "aggregate"
    /\ mergedFrom' = [mergedFrom EXCEPT ![Head(results).from] = @ + 1]
    /\ UNCHANGED <<signals, emitted>>
    /\ UNCHANGED <<call, opts, running, exited, status, fileIdx, total, lines, exit_code,
                   done_sent, countsStream, workerVars, interrupts, historyVars>>

\* write statement_counts.bz2 if asked to, then exit(exit_code)
Finish ==
    /\ Alive
    /\ pcMain = "finish"
    /\ countsStream' = IF opts.statement_counts THEN "buffered" ELSE countsStream
    /\ exited' = "main"
    /\ status' = exit_code
    /\ pcMain' = "exited"
    /\ UNCHANGED protocolVars
    /\ UNCHANGED <<call, opts, running, fileIdx, total, lines, exit_code, done_sent,
                   result_count, statement_counter, results, workerVars,
                   interrupts, historyVars>>

(***************************************************************************)
(* consume: the worker threads                                             *)
(***************************************************************************)
\* Work::LINES: handle every line, then flush both encoders.  A panic in
\* handle unwinds the thread: its encoders are dropped (which finishes the
\* streams and flushes the BufWriters) and it sends no result.
ProcessLines(w) ==
    /\ Alive
    /\ pcW[w] = "lines"
    /\ LET ws == HandleAll(worker[w], work[w].number, work[w].lines)
       IN /\ worker' = [worker EXCEPT ![w] = ws]
          /\ pcW' = [pcW EXCEPT ![w] = IF ws.panicked THEN "panicked" ELSE "recv"]
          /\ linesStream' = [linesStream EXCEPT ![w] =
                                IF ws.panicked THEN "closed" ELSE @]
          /\ labelsStream' = [labelsStream EXCEPT ![w] =
                                IF ws.panicked /\ opts.labels THEN "closed" ELSE @]
    /\ work' = [work EXCEPT ![w] = NoWork]
    /\ UNCHANGED protocolVars
    /\ UNCHANGED <<call, opts, running, exited, status, mainVars, results, interrupts,
                   historyVars>>

\* Work::DONE: try_finish both encoders (the end of each compressed stream
\* goes into its BufWriter), then send the WorkResult
FinishWorker(w) ==
    /\ Alive
    /\ pcW[w] = "done"
    /\ linesStream' = [linesStream EXCEPT ![w] = "buffered"]
    /\ labelsStream' = [labelsStream EXCEPT ![w] = IF opts.labels THEN "buffered" ELSE @]
    /\ results' = Append(results, [statement_counts |-> worker[w].statement_counter,
                                   from |-> w])
    /\ pcW' = [pcW EXCEPT ![w] = "return"]
    /\ emitted' = [emitted EXCEPT ![w] = @ + 1]
    /\ UNCHANGED <<signals, mergedFrom>>
    /\ UNCHANGED <<call, opts, running, exited, status, mainVars, work, worker,
                   interrupts, historyVars>>

\* return: the encoders go out of scope, their BufWriters are flushed
ReturnWorker(w) ==
    /\ Alive
    /\ pcW[w] = "return"
    /\ linesStream' = [linesStream EXCEPT ![w] = "closed"]
    /\ labelsStream' = [labelsStream EXCEPT ![w] = IF opts.labels THEN "closed" ELSE @]
    /\ pcW' = [pcW EXCEPT ![w] = "returned"]
    /\ UNCHANGED protocolVars
    /\ UNCHANGED <<call, opts, running, exited, status, mainVars, results, work, worker,
                   interrupts, historyVars>>

(***************************************************************************)
(* The Ctrl-C handler                                                      *)
(***************************************************************************)
\* a handler that reports success
HANDLER_EXIT_SUCCESS == 1 - 1

HANDLER_EXIT == 1

ctrlc_handler ==
    /\ Alive
    /\ interrupts < MaxInterrupts
    /\ interrupts' = interrupts + 1
    /\ IF running
       THEN /\ exited' = "handler"
            /\ status' = HANDLER_EXIT
            /\ UNCHANGED running
       ELSE /\ running' = FALSE
            /\ UNCHANGED <<exited, status>>
    /\ UNCHANGED protocolVars
    /\ UNCHANGED <<call, opts, mainVars, results, workerVars, historyVars>>

(***************************************************************************)
(* Specification                                                           *)
(***************************************************************************)
Program ==
    \/ ProduceStep
    \/ \E w \in Workers : SendLines(w)
    \/ \E w \in Workers : SendDone(w)
    \/ Aggregate
    \/ Finish
    \/ \E w \in Workers : ProcessLines(w)
    \/ \E w \in Workers : FinishWorker(w)
    \/ \E w \in Workers : ReturnWorker(w)

Next == Program \/ ctrlc_handler

Spec == Init /\ [][Next]_vars

\* the threads are scheduled fairly; Ctrl-C is up to the user
FairSpec == Spec /\ WF_vars(Program)

(***************************************************************************)
(* Single calls of the pure functions, on inputs drawn from bounded sets.  *)
(* The pipeline is idle: no input file, no worker.                         *)
(***************************************************************************)
Idle ==
    /\ opts = [paths |-> <<>>, skip |-> 0, threads |-> 0, labels |-> FALSE,
               statement_counts |-> FALSE]
    /\ Started

SomeSubjects ==
    { SubjectIRI(Q("1")), SubjectIRI(<<"foo">>),
      SubjectIRI(<<IGNORED_SUBJECT_PREFIX, "/Q1">>), SubjectBlank(<<"b0">>) }

SomePredicates ==
    { <<"bar">>, <<"http://schema.org/", "version">>,
      <<DIRECT_PROPERTY_IRI_PREFIX, "P", "1">>, <<DIRECT_PROPERTY_IRI_PREFIX, "P", "31">>,
      <<DIRECT_PROPERTY_IRI_PREFIX, "P", "214">>, <<DIRECT_NORMALIZED_PREFIX, "P", "214">>,
      <<DIRECT_NORMALIZED_PREFIX, "P", "31">> }

SomeObjects ==
    { ObjectIRI(<<"baz">>), ObjectBlank(<<"b1">>),
      ObjectLiteral(<<"x">>, ExtraNone), ObjectLiteral(<<"<", "x">>, ExtraNone),
      ObjectLiteral(<<"x">>, ExtraLang(<<"en">>)), ObjectLiteral(<<"x">>, ExtraLang(<<"de">>)),
      ObjectLiteral(<<"<", "x">>, ExtraLang(<<"en">>)),
      ObjectLiteral(<<"P", "o", "i", "n", "t">>, ExtraType(GEO_WKT_LITERAL)),
      ObjectLiteral(<<"<", "Q", ">", " ", "P">>, ExtraType(GEO_WKT_LITERAL)),
      ObjectLiteral(<<"<", "x">>, ExtraType(<<"http://www.w3.org/2001/XMLSchema#string">>)) }

SomeStatements ==
    { Statement(s, p, o) : s \in SomeSubjects, p \in SomePredicates, o \in SomeObjects }

\* is_acceptable(statement)
ClassifyInit ==
    /\ call \in { [fn |-> "is_acceptable", statement |-> st, returned |-> FALSE,
                   result |-> FALSE] : st \in SomeStatements }
    /\ Idle

CallIsAcceptable ==
    /\ call.fn = "is_acceptable"
    /\ ~call.returned
    /\ call' = [call EXCEPT !.returned = TRUE, !.result = is_acceptable(call.statement)]
    /\ UNCHANGED pipelineVars

ClassifySpec == ClassifyInit /\ [][CallIsAcceptable]_vars

SomeIds == { <<"1">>, <<"2">> }

SomeCounters ==
    { NoMap, SomeMap(EmptyMap) } \cup
    { SomeMap([id \in ids |-> n]) : ids \in (SUBSET SomeIds) \ {{}}, n \in 1..MaxCount } \cup
    { SomeMap([id \in SomeIds |-> IF id = <<"1">> THEN 1 ELSE MaxCount + 1]) }

\* maybe_count_statement(statement_counter, id, statement)
CountInit ==
    /\ call \in { [fn |-> "maybe_count_statement", statement_counter |-> c, id |-> id,
                   statement |-> Statement(SubjectIRI(<<ENTITY_IRI_PREFIX>> \o id), p,
                                          ObjectIRI(<<"baz">>)),
                   returned |-> FALSE, result |-> c] :
                  c \in SomeCounters, id \in SomeIds, p \in SomePredicates }
    /\ Idle

CallMaybeCountStatement ==
    /\ call.fn = "maybe_count_statement"
    /\ ~call.returned
    /\ call' = [call EXCEPT !.returned = TRUE,
                            !.result = maybe_count_statement(call.statement_counter, call.id,
                                                             call.statement)]
    /\ UNCHANGED pipelineVars

CountSpec == CountInit /\ [][CallMaybeCountStatement]_vars

\* pieces of literal values: plain characters, escapes and hex digits
SomeChunks ==
    { <<"x">>, <<"+">>, <<"\\">>, <<"\\", "n">>, <<"\\", "\\">>, <<"\\", "x">>,
      <<"\\", "u">>, <<"\\", "U">>, <<"4", "1">>, <<"0", "0">>, <<"0", "4", "1">>,
      <<"0", "0", "4", "1">>, <<"0", "0", "0", "0">>, <<"D", "8", "0", "0">>,
      <<"0", "0", "1", "1">>, <<"0", "0", "z", "1">> }

RECURSIVE ChunkStrings(_)
\* the strings made of at most n chunks
ChunkStrings(n) ==
    IF n = 0 THEN { <<>> }
    ELSE LET shorter == ChunkStrings(n - 1)
         IN shorter \cup { s \o c : s \in shorter, c \in SomeChunks }

\* unescape(s)
UnescapeInit ==
    /\ call \in { [fn |-> "unescape", s |-> s, returned |-> FALSE, result |-> None] :
                  s \in ChunkStrings(MaxChunks) }
    /\ Idle

CallUnescape ==
    /\ call.fn = "unescape"
    /\ ~call.returned
    /\ call' = [call EXCEPT !.returned = TRUE, !.result = unescape(call.s)]
    /\ UNCHANGED pipelineVars

UnescapeSpec == UnescapeInit /\ [][CallUnescape]_vars

SubjectTerms ==
    { IriT(<<"s">>), IriT(<<>>), BlankT(<<"b0">>), BlankT(<<>>), LitT(<<"x">>) }

PredicateTerms == { IriT(<<"p">>), BlankT(<<"b0">>), DotT }

ObjectTerms ==
    { IriT(<<"o">>), BlankT(<<"b1">>), BlankT(<<>>), LitT(<<"x">>), LitT(<<>>),
      LitLangT(<<"x">>, <<"en">>), LitTypeT(<<"x">>, <<"t">>), DotT }

\* what follows the object on the line
Trailers ==
    { <<>>, <<DotT>>, <<DotT, IriT(<<"junk">>)>>, <<LitLangT(<<"y">>, <<"de">>)>>,
      <<LitTypeT(<<"y">>, <<"t2">>), DotT>> }

SomeInputs ==
    { <<a, b, c>> \o t : a \in SubjectTerms, b \in PredicateTerms, c \in ObjectTerms,
                         t \in Trailers }
    \cup { <<>>, <<IriT(<<"s">>)>>, <<IriT(<<"s">>), IriT(<<"p">>)>> }

\* parse(line, input, &RE)
ParseInit ==
    /\ call \in { [fn |-> "parse", line |-> n, input |-> input, returned |-> FALSE,
                   result |-> Panic] : n \in 1..MaxLine, input \in SomeInputs }
    /\ Idle

CallParse ==
    /\ call.fn = "parse"
    /\ ~call.returned
    /\ call' = [call EXCEPT !.returned = TRUE, !.result = parse(call.line, call.input)]
    /\ UNCHANGED pipelineVars

ParseSpec == ParseInit /\ [][CallParse]_vars

(***************************************************************************)
(* Vocabulary of the properties                                            *)
(***************************************************************************)
Range(s) == { s[i] : i \in DOMAIN s }

\* every line of the input, as <<file, line number in the file>>
AllIdx == UNION { { <<f, i>> : i \in 1..Len(opts.paths[f]) } : f \in 1..Len(opts.paths) }

RECURSIVE LinesBefore(_)
LinesBefore(f) == IF f <= 1 THEN 0 ELSE Len(opts.paths[f - 1]) + LinesBefore(f - 1)

\* the position of a line in the whole run, counted across the files
GlobalPos(pos) == LinesBefore(pos[1]) + pos[2]

PastSkip(pos) == GlobalPos(pos) > opts.skip

LineAt(pos) == opts.paths[pos[1]][pos[2]]
StatementAt(pos) == parse(pos[2], LINE[LineAt(pos)])

\* the lines the producer has read so far
ReadIdx == { pos \in AllIdx : pos[1] < fileIdx \/ (pos[1] = fileIdx /\ pos[2] <= total) }

\* the lines handed to a worker so far, and how often each was handed
HandedIdx == UNION { Range(log[i].idxs) : i \in DOMAIN log }
TimesHanded(pos) ==
    Cardinality(UNION { { <<i, j>> : j \in { k \in DOMAIN log[i].idxs : log[i].idxs[k] = pos } } :
                        i \in DOMAIN log })

AllEof == eofFiles = 1..Len(opts.paths)
AnyPanicked == \E w \in Workers : pcW[w] = "panicked"

RECURSIVE BagOfSeq(_)
BagOfSeq(s) == IF s = <<>> THEN EmptyBag ELSE SetToBag({Head(s)}) (+) BagOfSeq(Tail(s))

RECURSIVE ShardsBag(_)
\* the lines of the statement shards of workers 1..n, as a multiset
ShardsBag(n) == IF n = 0 THEN EmptyBag
                ELSE BagOfSeq(worker[n].lines_writer) (+) ShardsBag(n - 1)

RECURSIVE BagOfLinesAt(_)
BagOfLinesAt(S) == IF S = {} THEN EmptyBag
                   ELSE LET pos == CHOOSE x \in S : TRUE
                        IN SetToBag({LineAt(pos)}) (+) BagOfLinesAt(S \ {pos})

RECURSIVE SumOverWorkers(_, _)
SumOverWorkers(n, id) ==
    IF n = 0 THEN 0
    ELSE Get(worker[n].statement_counter.map, id) + SumOverWorkers(n - 1, id)

\* the lines of file f that produce does not skip, in input order
RECURSIVE KeptFrom(_, _)
KeptFrom(f, i) ==
    IF i > Len(opts.paths[f]) THEN <<>>
    ELSE (IF skipped(i, opts.skip) THEN <<>> ELSE <<opts.paths[f][i]>>) \o KeptFrom(f, i + 1)

RECURSIVE KeptLines(_)
KeptLines(f) == IF f > Len(opts.paths) THEN <<>> ELSE KeptFrom(f, 1) \o KeptLines(f + 1)

\* the counter of one worker that handles every kept line in input order
SequentialCounts ==
    HandleAll([lines_writer |-> <<>>,
               labels_writer |-> IF opts.labels THEN Some(<<>>) ELSE None,
               statement_counter |-> IF opts.statement_counts THEN SomeMap(EmptyMap) ELSE NoMap,
               panicked |-> FALSE,
               at |-> 0], 0, KeptLines(1)).statement_counter.map

Entities == { <<"1">>, <<"2">> } \cup DOMAIN statement_counter

IsDirectFor(pos, id) ==
    /\ direct_property(StatementAt(pos).predicate).some
    /\ entity(StatementAt(pos).subject) = Some(id)

(***************************************************************************)
(* C1.  In a run that is neither cancelled nor hit by a fatal error, each  *)
(* input line past the skip count is placed in exactly one batch that is   *)
(* received by exactly one worker exactly once, and the statement shards   *)
(* together hold, as a multiset, exactly the lines past the skip count     *)
(* that accept-for-output accepts.                                         *)
(***************************************************************************)
C1_ExactlyOnce ==
    (exited = "main" /\ status = 0 /\ ~AnyPanicked) =>
        /\ \A pos \in AllIdx :
              TimesHanded(pos) = IF PastSkip(pos) THEN 1 ELSE 0
        /\ ShardsBag(opts.threads) =
              BagOfLinesAt({ pos \in AllIdx : PastSkip(pos) /\ is_acceptable(StatementAt(pos)) })

(***************************************************************************)
(* C2.  The merged counts main computes are the per-entity sum of the      *)
(* per-worker results, and are those a single worker handling the same     *)
(* lines in input order computes: they depend neither on the assignment of *)
(* batches to workers, nor on the worker count, nor on the order in which  *)
(* the results arrive.                                                     *)
(***************************************************************************)
C2_MergedCounts ==
    pcMain \in {"finish", "exited"} =>
        /\ \A id \in Entities : Get(statement_counter, id) = SumOverWorkers(opts.threads, id)
        /\ DOMAIN statement_counter =
              UNION { DOMAIN worker[w].statement_counter.map : w \in Workers }
        /\ statement_counter = SequentialCounts

\* two workers both counted the same entity and main merged their results
C2_Witness ==
    /\ pcMain = "exited"
    /\ opts.threads = 2
    /\ \E id \in DOMAIN statement_counter :
          /\ Get(worker[1].statement_counter.map, id) > 0
          /\ Get(worker[2].statement_counter.map, id) > 0

(***************************************************************************)
(* C3.  The first interrupt only sets the cancellation flag (running       *)
(* becomes false) and does not terminate the process.                      *)
(***************************************************************************)
C3_FirstInterruptSetsFlag ==
    interrupts = 1 => (running = FALSE /\ exited # "handler")

(***************************************************************************)
(* C4.  The handler terminates the process when, and only when, the        *)
(* interrupt is a second one received while the cancellation flag is       *)
(* already set; the exit status is then non-zero.                          *)
(***************************************************************************)
C4_SecondInterruptTerminates ==
    /\ exited = "handler" => (interrupts >= 2 /\ running = FALSE /\ status # 0)
    /\ interrupts >= 2 => exited # "no"

(***************************************************************************)
(* C5.  Once a worker hit a fatal error the process stops: it is never     *)
(* left running with every thread blocked for ever (the producer in its    *)
(* hand-off, main in a shutdown-signal send or in the wait for results).   *)
(***************************************************************************)
C5_FatalErrorStops ==
    (AnyPanicked /\ Alive) => ENABLED Program

(***************************************************************************)
(* C6.  When the process exits through the end of main, every worker has   *)
(* finalized its statement stream and its label stream and all their       *)
(* bytes are in the output files.                                          *)
(***************************************************************************)
C6_FinalizedAtExit ==
    exited = "main" =>
        \A w \in Workers : /\ linesStream[w] = "closed"
                           /\ labelsStream[w] \in {"absent", "closed"}

(***************************************************************************)
(* C7.  With skip count N exactly the first N lines of the whole run,      *)
(* counted across all files, are discarded without being put in a batch,   *)
(* every later line is put in a batch, and skipped lines advance the line  *)
(* total.                                                                  *)
(***************************************************************************)
C7_SkipCount ==
    /\ \A pos \in ReadIdx :
          IF PastSkip(pos)
          THEN pos \notin Range(skippedIdx) /\ pos \in Range(linesIdx) \cup HandedIdx
          ELSE pos \in Range(skippedIdx) /\ pos \notin Range(linesIdx) \cup HandedIdx
    /\ Cardinality({ pos \in ReadIdx : pos[1] = fileIdx }) = total

(***************************************************************************)
(* C8.  A cancellation that stops the producer before the end of the input *)
(* is graceful: when the process has exited after one interrupt with some  *)
(* input left unread, the producer had observed the flag, main exited      *)
(* through its end, every worker got one shutdown signal, finished the     *)
(* batch it held, finalized its streams and emitted its result.            *)
(***************************************************************************)
C8_GracefulCancellation ==
    (interrupts = 1 /\ exited # "no" /\ ~AllEof) =>
        /\ exited = "main"
        /\ exit_code = 1
        /\ done_sent = opts.threads
        /\ \A w \in Workers : pcW[w] \in {"return", "returned"} /\ work[w] = NoWork
        /\ result_count = opts.threads

C11_BatchSize ==
    /\ \A i \in DOMAIN log :
          /\ log[i].lines # <<>>
          /\ \/ Len(log[i].lines) = BATCH_SIZE
             \/ log[i].number = Len(opts.paths[log[i].file])
    /\ pcMain = "read" => Len(lines) < BATCH_SIZE
    /\ pcMain = "send_lines" => Len(lines) = BATCH_SIZE

RECURSIVE HeldByWorkers(_)
\* the lines of the batches workers 1..n have received and not yet handled
HeldByWorkers(n) ==
    IF n = 0 THEN 0
    ELSE (IF pcW[n] = "lines" THEN Len(work[n].lines) ELSE 0) + HeldByWorkers(n - 1)

\* the input lines held in memory: the producer's batch and the workers' batches
InMemory == Len(lines) + HeldByWorkers(opts.threads)

(***************************************************************************)
(* C12.  With at least one worker, the number of input lines held in       *)
(* memory is in every reachable state at most BATCH_SIZE times the worker  *)
(* count.                                                                  *)
(***************************************************************************)
C12_MemoryBound ==
    opts.threads >= 1 => InMemory <= BATCH_SIZE * opts.threads

(***************************************************************************)
(* C12, amended.  The number of input lines held in memory is in every     *)
(* reachable state at most BATCH_SIZE times the worker count plus one: one *)
(* batch per worker and the batch the producer is filling or is blocked    *)
(* on; a batch that was handed off is held by exactly the worker that      *)
(* received it until that worker has handled it, never by the queue.       *)
(***************************************************************************)
C12_MemoryBoundAmended ==
    /\ InMemory <= BATCH_SIZE * (opts.threads + 1)
    /\ Len(lines) <= BATCH_SIZE
    /\ \A w \in 1..opts.threads :
          pcW[w] = "lines" =>
              /\ Len(work[w].lines) <= BATCH_SIZE
              /\ log # <<>>
              /\ \E i \in DOMAIN log :
                    /\ log[i].w = w
                    /\ log[i].lines = work[w].lines
                    /\ \A j \in DOMAIN log : j > i => log[j].w # w

\* one worker holds a whole batch while the producer is filling the next
C12_Witness ==
    /\ opts.threads = 1
    /\ pcW[1] = "lines"
    /\ Len(work[1].lines) = BATCH_SIZE
    /\ Len(lines) > 0

(***************************************************************************)
(* C13.  When production is cancelled by the first interrupt before the    *)
(* input has ended, every line the producer has read was either skipped or *)
(* handed to a worker (none is dropped), so the line count it reports is   *)
(* the number of lines skipped plus the number handed to workers.          *)
(***************************************************************************)
C13_CancelledCount ==
    (interrupts = 1 /\ exited # "no" /\ ~AllEof) =>
        /\ ReadIdx = Range(skippedIdx) \cup HandedIdx
        /\ Cardinality(ReadIdx) = Len(skippedIdx) + Cardinality(HandedIdx)

\* the producer has returned from its last call: every file was read to its
\* end, or a file was reported as not finished
ProducerStopped ==
    /\ pcMain \in {"send_done", "aggregate", "finish", "exited"}
    /\ AllEof \/ exit_code = 1

RECURSIVE SumTo(_, _)
SumTo(f, n) == IF n = 0 THEN 0 ELSE f[n] + SumTo(f, n - 1)

(***************************************************************************)
(* C15.  Shutdown protocol.  Main sends shutdown signals only after the    *)
(* producer has stopped, one per spawned worker; no worker receives more   *)
(* than one signal and, once main has sent them all, each has received     *)
(* exactly one; no batch is handed to a worker that has got its signal; a  *)
(* worker emits a result only after its signal and never more than one;    *)
(* main merges at most one result of a worker, an emitted one; main writes *)
(* the counts and exits only after it has merged exactly one result from   *)
(* every worker.                                                           *)
(***************************************************************************)
C15_ShutdownProtocol ==
    /\ done_sent > 0 => ProducerStopped
    /\ done_sent <= opts.threads
    /\ done_sent = SumTo(signals, opts.threads)
    /\ \A w \in Workers : signals[w] <= 1 /\ emitted[w] <= signals[w]
    /\ pcMain \in {"aggregate", "finish", "exited"} =>
          \A w \in 1..opts.threads : signals[w] = 1
    /\ \A i \in DOMAIN log : ~log[i].signalled
    /\ \A w \in Workers : emitted[w] = 1 <=> pcW[w] \in {"return", "returned"}
    /\ \A w \in Workers : mergedFrom[w] <= emitted[w]
    /\ SumTo(mergedFrom, opts.threads) = result_count
    /\ (pcMain \in {"finish", "exited"} \/ countsStream # "none") =>
          /\ results = <<>>
          /\ \A w \in 1..opts.threads : emitted[w] = 1 /\ mergedFrom[w] = 1

\* main has exited after it merged the results of two workers
C15_Witness ==
    /\ pcMain = "exited"
    /\ opts.threads = 2
    /\ mergedFrom = [w \in Workers |-> 1]
    /\ signals = [w \in Workers |-> 1]

\* every line of the input matches the statement grammar and every label
\* has valid escapes
WellFormedInput ==
    \A pos \in AllIdx : LineAt(pos) \in Range(GoodKinds)

(***************************************************************************)
(* C16.  For a finite input of well-formed lines, without an interrupt and *)
(* for every worker count the thread option accepts, 0 and 1 included, the *)
(* run is never stuck before main has exited: in every state in which the  *)
(* process is alive some thread can take a step.                           *)
(***************************************************************************)
C16_Completes ==
    (WellFormedInput /\ interrupts = 0 /\ Alive) => ENABLED Program

\* the line texts that match the grammar and that accept-for-output accepts
AcceptedLines ==
    { l \in DOMAIN LINE : /\ parse(0, LINE[l]) # Panic
                          /\ is_acceptable(parse(0, LINE[l])) }

IsAcceptedLine(l) == l \in AcceptedLines

RECURSIVE ReceivedBy(_, _)
\* the lines of the first n batches of the log that went to worker w, in
\* the order the worker received them
ReceivedBy(w, n) ==
    IF n = 0 THEN <<>>
    ELSE ReceivedBy(w, n - 1) \o (IF log[n].w = w THEN log[n].lines ELSE <<>>)

\* the lines of the batches worker w has handled to their end
HandledBy(w) ==
    LET received == ReceivedBy(w, Len(log))
    IN IF pcW[w] = "lines"
       THEN SubSeq(received, 1, Len(received) - Len(work[w].lines))
       ELSE received

IsPrefix(s, t) == Len(s) <= Len(t) /\ s = SubSeq(t, 1, Len(s))

\* <<file, line number>> positions in reading order
Before(p, q) == p[1] < q[1] \/ (p[1] = q[1] /\ p[2] < q[2])

(***************************************************************************)
(* C17.  Batches are handed off in the order the producer read them: the   *)
(* lines of a batch are in input order and every line of a batch precedes  *)
(* every line of a later batch.  Under every interleaving, the statement   *)
(* shard of a worker holds exactly the accepted lines of the batches the   *)
(* worker has handled, batches in the order it received them and lines in  *)
(* batch order (a worker that stopped on a fatal error holds a prefix of   *)
(* the accepted lines of the batches it received).                         *)
(***************************************************************************)
C17_Order ==
    /\ \A i \in DOMAIN log :
          /\ \A j \in 2..Len(log[i].idxs) : Before(log[i].idxs[j - 1], log[i].idxs[j])
          /\ \A j \in 1..(Len(log[i].idxs)) : LineAt(log[i].idxs[j]) = log[i].lines[j]
          /\ i > 1 => Before(log[i - 1].idxs[Len(log[i - 1].idxs)], log[i].idxs[1])
    /\ \A w \in 1..opts.threads :
          IF pcW[w] = "panicked"
          THEN IsPrefix(worker[w].lines_writer,
                        SelectSeq(ReceivedBy(w, Len(log)), IsAcceptedLine))
          ELSE worker[w].lines_writer = SelectSeq(HandledBy(w), IsAcceptedLine)

\* a worker has handled two batches and its shard holds two different lines
\* of the first and a line of the second
C17_Witness ==
    \E w \in 1..opts.threads :
        /\ pcW[w] = "recv"
        /\ Cardinality({ i \in DOMAIN log : log[i].w = w }) = 2
        /\ Len(worker[w].lines_writer) > 2
        /\ worker[w].lines_writer[1] # worker[w].lines_writer[2]
        /\ Len(worker[w].lines_writer) >
              Len(SelectSeq(log[1].lines, IsAcceptedLine))

\* the index in the log of the last batch handed to worker w
LastBatchOf(w) == CHOOSE i \in DOMAIN log : log[i].w = w /\ \A j \in DOMAIN log : j > i => log[j].w # w

FailsGrammar(l) == parse(0, LINE[l]) = Panic

(***************************************************************************)
(* C18.  When a worker stops on a line that fails the statement grammar,   *)
(* the line number carried by the fatal error is the 1-based position in   *)
(* its input file of the offending line, the first line of the batch that  *)
(* fails the grammar, wherever in the batch that line is.                  *)
(***************************************************************************)
C18_LineNumber ==
    \A w \in 1..opts.threads :
        (pcW[w] = "panicked" /\ worker[w].at # 0) =>
            LET batch == log[LastBatchOf(w)]
            IN \E j \in DOMAIN batch.lines :
                  /\ FailsGrammar(batch.lines[j])
                  /\ \A k \in 1..(j - 1) : ~FailsGrammar(batch.lines[k])
                  /\ worker[w].at = batch.idxs[j][2]

\* the six conditions of rejection, in no order
Rejected(statement) ==
    \/ statement.object.k = "Literal" /\ statement.object.extra.k = "Type"
         /\ statement.object.extra.v = GEO_WKT_LITERAL
         /\ statement.object.v # <<>> /\ Head(statement.object.v) = "<"
    \/ statement.object.k = "Literal" /\ statement.object.extra.k = "Lang"
         /\ ~(statement.object.extra.v \in LANGUAGES)
    \/ statement.object.k = "Blank"
    \/ statement.subject.k = "IRI" /\ statement.subject.v # <<>>
         /\ Head(statement.subject.v) = IGNORED_SUBJECT_PREFIX
    \/ statement.subject.k = "Blank"
    \/ statement.predicate \in PROPERTIES \cup IDENTIFIER_PROPERTIES

(***************************************************************************)
(* C19.  is_acceptable returns false exactly when the predicate is an      *)
(* excluded predicate or excluded identifier predicate, or the subject is  *)
(* a blank node, or the subject is an IRI with the ignored entity-data     *)
(* prefix, or the object is a blank node, or the object is a literal with  *)
(* a language tag that is not accepted, or the object is a geo-shape       *)
(* literal whose value starts with '<'; it returns true otherwise.  A      *)
(* statement with a blank subject is rejected whatever its predicate and   *)
(* object, and the result is a function of the statement: it is the        *)
(* negation of the unordered disjunction of the six conditions.            *)
(***************************************************************************)
C19_Classifier ==
    (call.fn = "is_acceptable" /\ call.returned) =>
        /\ call.result = ~Rejected(call.statement)
        /\ call.statement.subject.k = "Blank" => call.result = FALSE

\* a statement whose only reason for rejection is its blank subject
C19_Witness ==
    /\ call.fn = "is_acceptable"
    /\ call.returned
    /\ call.statement = Statement(SubjectBlank(<<"b0">>), <<"bar">>, ObjectIRI(<<"baz">>))
    /\ call.result = FALSE

(***************************************************************************)
(* C20.  Given a counter map, maybe_count_statement increments the entry   *)
(* of the given entity id by exactly one, creating it at 1 if it is        *)
(* absent, when the predicate starts with the direct-property IRI prefix,  *)
(* and leaves every other entry as it was; when the predicate does not     *)
(* start with the prefix the map is unchanged and no entry is created;     *)
(* without a counter map nothing changes.                                  *)
(***************************************************************************)
C20_CountStatement ==
    (call.fn = "maybe_count_statement" /\ call.returned) =>
        LET before == call.statement_counter
            after == call.result
            direct == /\ call.statement.predicate # <<>>
                      /\ Head(call.statement.predicate) = DIRECT_PROPERTY_IRI_PREFIX
        IN IF ~before.some THEN after = before
           ELSE IF ~direct THEN after = before
           ELSE /\ after.some
                /\ DOMAIN after.map = DOMAIN before.map \cup {call.id}
                /\ after.map[call.id] =
                      IF call.id \in DOMAIN before.map THEN before.map[call.id] + 1 ELSE 1
                /\ \A k \in DOMAIN before.map : k # call.id => after.map[k] = before.map[k]

\* an existing entry was incremented and the entry of the other entity kept
C20_Witness ==
    /\ call.fn = "maybe_count_statement"
    /\ call.returned
    /\ call.statement_counter.some
    /\ DOMAIN call.statement_counter.map = SomeIds
    /\ call.result.map[call.id] = call.statement_counter.map[call.id] + 1
    /\ call.result.map[call.id] > 2

\* the value of n hex digits at position i of s is a code point
IsCodePoint(s, i, n) ==
    LET u == HexNumber(SubSeq(s, i, i + n - 1), 0)
    IN u <= CHAR_MAX /\ ~(u >= 55296 /\ u <= 57343)

\* exactly n hex digits follow position i of s and they are a code point
HexEscapeOk(s, i, n) ==
    /\ i + n <= Len(s)
    /\ \A j \in (i + 1)..(i + n) : IsHex(s[j])
    /\ IsCodePoint(s, i + 1, n)

RECURSIVE InvalidEscapeFrom(_, _)
\* s has an invalid escape at or after position i, where i is not inside an
\* escape
InvalidEscapeFrom(s, i) ==
    IF i > Len(s) THEN FALSE
    ELSE IF s[i] # "\\" THEN InvalidEscapeFrom(s, i + 1)
    ELSE IF i = Len(s) THEN TRUE
    ELSE IF s[i + 1] \in {"t", "b", "n", "r", "f", "\\"} THEN InvalidEscapeFrom(s, i + 2)
    ELSE IF s[i + 1] = "u"
         THEN IF HexEscapeOk(s, i + 1, 4) THEN InvalidEscapeFrom(s, i + 6) ELSE TRUE
    ELSE IF s[i + 1] = "U"
         THEN IF HexEscapeOk(s, i + 1, 8) THEN InvalidEscapeFrom(s, i + 10) ELSE TRUE
    ELSE TRUE

(***************************************************************************)
(* C21.  unescape fails on every input that contains an invalid escape: a  *)
(* backslash at the end of the input, a backslash followed by a character  *)
(* other than t, b, n, r, f, backslash, u, U, a \u not followed by exactly *)
(* 4 hex digits, a \U not followed by exactly 8 hex digits, or hex digits  *)
(* that are not a code point.  No such input yields a result string.       *)
(***************************************************************************)
C21_InvalidEscapeFails ==
    (call.fn = "unescape" /\ call.returned /\ InvalidEscapeFrom(call.s, 1)) =>
        ~call.result.some

(***************************************************************************)
(* C22.  For every line that matches the grammar, parse returns a          *)
(* Statement whose subject is the IRI variant for <...> and the Blank      *)
(* variant for _:label, whose predicate is the predicate IRI, and whose    *)
(* object is the IRI, Blank or Literal variant of the object term; a       *)
(* literal carries Lang with the tag when a language tag follows it, Type  *)
(* with the datatype when ^^<datatype> follows it, and None when neither   *)
(* does.  The Statement is determined by the subject, predicate and object *)
(* terms alone: the line number the batch supplies and the content that    *)
(* follows the object, such as ' .', have no influence.                    *)
(***************************************************************************)
C22_Parse ==
    (call.fn = "parse" /\ call.returned /\ Matches(call.input)) =>
        LET st == call.result
            a == call.input[1]
            b == call.input[2]
            c == call.input[3]
        IN /\ st # Panic
           /\ DOMAIN st = {"subject", "predicate", "object"}
           /\ st.subject = [k |-> IF a.k = "iri" THEN "IRI" ELSE "Blank", v |-> a.v]
           /\ st.predicate = b.v
           /\ st.object.k = (IF c.k = "iri" THEN "IRI"
                             ELSE IF c.k = "blank" THEN "Blank" ELSE "Literal")
           /\ st.object.v = c.v
           /\ st.object.extra.k = (IF c.k = "lit" /\ c.xk = "lang" THEN "Lang"
                                   ELSE IF c.k = "lit" /\ c.xk = "type" THEN "Type"
                                   ELSE "None")
           /\ st.object.extra.v = (IF c.k = "lit" THEN c.xv ELSE <<>>)

\* a tagged literal followed by a datatyped one, in a batch numbered above 1
C22_Witness ==
    /\ call.fn = "parse"
    /\ call.returned
    /\ call.line > 1
    /\ call.input = <<BlankT(<<"b0">>), IriT(<<"p">>), LitLangT(<<"x">>, <<"en">>),
                      LitTypeT(<<"y">>, <<"t2">>), DotT>>
    /\ call.result = Statement(SubjectBlank(<<"b0">>), <<"p">>,
                               ObjectLiteral(<<"x">>, ExtraLang(<<"en">>)))

====
